---- MODULE Spec2Model ----
(***************************************************************************)
(* Kakuro solver: the board model (common.KakuroPuzzle), the run extractor *)
(* (kakuro_solver.get_sum_run) and the solver (kakuro_solver.solve_kakuro) *)
(* as a state machine.                                                     *)
(*                                                                         *)
(* Python values that may be None, a bool or an int are tagged records, so *)
(* that `a or b` and `x is not None` are computed as Python computes them. *)
(* A coordinate is a pair <<x, y>>, exactly as the keys of puzzle.board.   *)
(* The order of the dict puzzle.board is not modelled: the solver only     *)
(* folds over its values and no result depends on the order.               *)
(***************************************************************************)
EXTENDS Integers, Sequences, FiniteSets, TLC

VARIABLES size, cells, board, pc, result, run, answer, file, output

vars == <<size, cells, board, pc, result, run, answer, file, output>>

----------------------------------------------------------------------------
(* Bounds of the model *)

\* largest number of rows of a board
MaxRows == 2
\* largest number of columns of a board
MaxCols == 3
\* largest number of cell descriptors handed to the constructor
MaxCells == 2
\* largest number of unconstrained grid variables of a query handed to Z3
MaxFree == 1
MaxWide == 11
MaxLine == 24
MaxLines == 3

(* Program constants *)

\* smallest digit of a blank cell
MinDigit == 1
\* largest digit of a blank cell
MaxDigit == 9
Tolerance == 10

----------------------------------------------------------------------------
(* Python values *)

None == [t |-> "none"]

PyBool(b) == [t |-> "bool", b |-> b]

PyInt(n) == [t |-> "int", n |-> n]

\* bool(v)
Truthy(v) ==
    CASE v.t = "none" -> FALSE
      [] v.t = "bool" -> v.b
      [] v.t = "int" -> v.n # 0

\* a or b
PyOr(a, b) == IF Truthy(a) THEN a ELSE b

----------------------------------------------------------------------------
(* Inputs *)

\* the sizes (rows, cols) a caller passes
Sizes == (1..MaxRows) \X (1..MaxCols)

\* cell.get("wall"): absent, true or false
WallValues == {None, PyBool(TRUE), PyBool(FALSE)}

\* cell.get("right"): absent, zero, the sum 3, or the sum 10 no single digit reaches
RightValues == {None, PyInt(0), PyInt(3), PyInt(10)}

\* cell.get("down"): absent, negative, or the sum 3
DownValues == {None, PyInt(0 - 1), PyInt(3)}

\* the cell descriptors of the exchange format
Descriptors ==
    [x : 0..(MaxCols - 1), y : 0..(MaxRows - 1),
     wall : WallValues, right : RightValues, down : DownValues]

\* the lists of at most MaxCells descriptors
CellLists == UNION {[1..n -> Descriptors] : n \in 0..MaxCells}

----------------------------------------------------------------------------
(* common.KakuroPuzzle *)

\* the empty dict
EmptyBoard == [k \in {} |-> None]

\* the iteration without the test `if is_wall:`: every descriptor is stored
AddCellUnguarded(b, cell) ==
    LET row_sum == cell.right
        col_sum == cell.down
        is_wall == PyOr(PyOr(cell.wall, row_sum), col_sum)
        key == <<cell.x, cell.y>>
        clue == [x |-> cell.x, y |-> cell.y, row_sum |-> row_sum,
                 col_sum |-> col_sum, is_wall |-> is_wall]
    IN  (key :> clue) @@ b

\* one iteration of the constructor's loop over the descriptors
AddCell(b, cell) ==
    LET row_sum == cell.right
        col_sum == cell.down
        is_wall == PyOr(PyOr(cell.wall, row_sum), col_sum)
        key == <<cell.x, cell.y>>
        clue == [x |-> cell.x, y |-> cell.y, row_sum |-> row_sum,
                 col_sum |-> col_sum, is_wall |-> is_wall]
    IN  IF Truthy(is_wall)
        THEN (key :> clue) @@ b
        ELSE b

RECURSIVE BuildBoard(_, _)
\* the board after the constructor's loop has run over the list cs, from b:
\* what the second half of the list stores overwrites or extends the board
\* the first half has left
BuildBoard(b, cs) ==
    IF cs = <<>> THEN b
    ELSE IF Len(cs) = 1 THEN AddCell(b, cs[1])
    ELSE LET half == Len(cs) \div 2
         IN  BuildBoard(EmptyBoard, SubSeq(cs, half + 1, Len(cs)))
                 @@ BuildBoard(b, SubSeq(cs, 1, half))

\* is_wall answering for declared walls only: a clue cell that carries sums
\* and no wall flag does not count
is_wall_declared(b, col, row) ==
    IF <<col, row>> \in DOMAIN b THEN b[<<col, row>>].is_wall = PyBool(TRUE) ELSE FALSE

\* KakuroPuzzle.is_wall(col, row): `cell and cell.is_wall`, as a truth value
is_wall(b, col, row) ==
    IF <<col, row>> \in DOMAIN b THEN Truthy(b[<<col, row>>].is_wall) ELSE FALSE

\* KakuroPuzzle.get_clue(col, row) is not None
get_clue(b, col, row) == <<col, row>> \in DOMAIN b

\* KakuroPuzzle.clues
clues(b) == {b[k] : k \in DOMAIN b}

----------------------------------------------------------------------------
(* kakuro_solver.get_sum_run *)

RECURSIVE WalkRight(_, _, _, _)
\* the loop `for x in range(x, cols)` of the branch direction == "right"
WalkRight(b, x, first_y, cols) ==
    IF x >= cols \/ is_wall(b, x, first_y)
    THEN <<>>
    ELSE <<<<x, first_y>>>> \o WalkRight(b, x + 1, first_y, cols)

RECURSIVE WalkDown(_, _, _, _)
\* the loop `for y in range(y, rows)` of the other branch
WalkDown(b, first_x, y, rows) ==
    IF y >= rows \/ is_wall(b, first_x, y)
    THEN <<>>
    ELSE <<<<first_x, y>>>> \o WalkDown(b, first_x, y + 1, rows)

\* get_sum_run(puzzle, first_x, first_y, direction) = (len(cells), cells)
get_sum_run(sz, b, first_x, first_y, direction) ==
    LET rows == sz[1]
        cols == sz[2]
        cs == IF direction = "right"
              THEN WalkRight(b, first_x + 1, first_y, cols)
              ELSE WalkDown(b, first_x, first_y + 1, rows)
    IN  <<Len(cs), cs>>

----------------------------------------------------------------------------
(* kakuro_solver.solve_kakuro *)

\* the indices <<i, j>> of grid = [[Int(..) for j in range(cols)] for i in range(rows)]
Grid(sz) == (0..(sz[1] - 1)) \X (0..(sz[2] - 1))

\* the grid variables asserted == 0 by the loop over range(rows) x range(cols)
Pinned(sz, b) == {g \in Grid(sz) : get_clue(b, g[1], g[2])}

\* the runs on which the loop over puzzle.clues posts Sum and Distinct:
\* the sum is not None and the run is not empty
SumConstraints(sz, b) ==
    {[vars |-> get_sum_run(sz, b, c.x, c.y, "right")[2], total |-> c.row_sum.n] :
        c \in {d \in clues(b) : d.row_sum # None
                 /\ get_sum_run(sz, b, d.x, d.y, "right")[2] # <<>>}}
    \cup
    {[vars |-> get_sum_run(sz, b, c.x, c.y, "down")[2], total |-> c.col_sum.n] :
        c \in {d \in clues(b) : d.col_sum # None
                 /\ get_sum_run(sz, b, d.x, d.y, "down")[2] # <<>>}}

\* the loop over puzzle.clues without the tests `if right_cells:` and
\* `if down_cells:`: a sum is posted on an empty run as well
PostedRunsUnguarded(sz, b, direction) ==
    {[clue |-> <<c.x, c.y>>, cells |-> get_sum_run(sz, b, c.x, c.y, direction)[2]] :
        c \in {d \in clues(b) :
                 (IF direction = "right" THEN d.row_sum ELSE d.col_sum) # None}}

\* the same runs, each with the clue it starts from: the runs posted for the
\* row sums (direction "right") or for the column sums (direction "down")
PostedRuns(sz, b, direction) ==
    {[clue |-> <<c.x, c.y>>, cells |-> get_sum_run(sz, b, c.x, c.y, direction)[2]] :
        c \in {d \in clues(b) :
                 /\ (IF direction = "right" THEN d.row_sum ELSE d.col_sum) # None
                 /\ get_sum_run(sz, b, d.x, d.y, direction)[2] # <<>>}}

\* the elements of a sequence
Range(s) == {s[k] : k \in DOMAIN s}

\* cell_vars = [grid[r][c] for r, c in ..._cells] raises IndexError
\* when some r is not a row index or some c is not a column index of grid
RaisesIndexError(sz, b) ==
    \E k \in SumConstraints(sz, b) : \E rc \in Range(k.vars) : rc \notin Grid(sz)

\* the grid variables under some Sum/Distinct constraint
Constrained(sz, b) == UNION {Range(k.vars) : k \in SumConstraints(sz, b)}

\* the grid variables that only carry 1 <= v <= 9
Free(sz, b) == (Grid(sz) \ Pinned(sz, b)) \ Constrained(sz, b)

\* the values the basic constraints allow for a grid variable
Domain(sz, b, g) == IF g \in Pinned(sz, b) THEN {0} ELSE MinDigit..MaxDigit

RECURSIVE SumOver(_, _)
\* Sum(cell_vars) under the assignment m
SumOver(m, s) == IF s = <<>> THEN 0 ELSE m[Head(s)] + SumOver(m, Tail(s))

\* Distinct(cell_vars) under the assignment m
DistinctOver(m, s) == \A p, q \in DOMAIN s : p # q => m[s[p]] # m[s[q]]

\* the partial assignment m, extended by g = v, can still satisfy constraint k
Admits(m, g, v, k) ==
    LET n == m @@ (g :> v)
        given == SelectSeq(k.vars, LAMBDA c : c \in DOMAIN n)
    IN  /\ DistinctOver(n, given)
        /\ IF Len(given) = Len(k.vars)
           THEN SumOver(n, given) = k.total
           ELSE SumOver(n, given) <= k.total

RECURSIVE Extend(_, _, _, _)
\* all extensions of the partial assignments ms to the variables todo
Extend(ms, todo, sz, b) ==
    IF todo = {} \/ ms = {}
    THEN ms
    ELSE LET g == CHOOSE c \in todo : TRUE
             ks == {k \in SumConstraints(sz, b) : g \in Range(k.vars)}
         IN  Extend(UNION {{m @@ (g :> v) : v \in
                              {w \in Domain(sz, b, g) : \A k \in ks : Admits(m, g, w, k)}} :
                           m \in ms},
                    todo \ {g}, sz, b)

\* solver.check() == sat and solver.model(): Z3 decides the conjunction of the
\* assertions, and the model it returns is one of the satisfying assignments
\* (a variable that is pinned and under no sum is 0 in every one of them)
Models(sz, b) ==
    LET fixed == Pinned(sz, b) \ Constrained(sz, b)
    IN  Extend(Extend({[g \in fixed |-> 0]},
                      (Pinned(sz, b) \cup (Constrained(sz, b) \cap Grid(sz))) \ fixed,
                      sz, b),
               Free(sz, b), sz, b)

\* SolutionCell(i, j, value)
SolutionCell(i, j, value) == [x |-> i, y |-> j, value |-> value]

\* the same loop with the columns outside and the rows inside
SolutionFromColumnMajor(m, sz, k) ==
    SelectSeq([n \in 1..(sz[1] * sz[2] - k) |->
                  LET i == (k + n - 1) % sz[1]
                      j == (k + n - 1) \div sz[1]
                  IN  SolutionCell(i, j, m[<<i, j>>])],
              LAMBDA cell : cell.value # 0 /\ cell.value > 0)

\* the loop over range(rows) x range(cols) that appends the cells whose value
\* is not 0, from the k-th grid variable in row-major order on
SolutionFrom(m, sz, k) ==
    SelectSeq([n \in 1..(sz[1] * sz[2] - k) |->
                  LET i == (k + n - 1) \div sz[2]
                      j == (k + n - 1) % sz[2]
                  IN  SolutionCell(i, j, m[<<i, j>>])],
              LAMBDA cell : cell.value # 0 /\ cell.value > 0)

\* the answer of solver.check() when Z3 runs to the end: it decides the
\* assertions, which are linear constraints over bounded integers
Decided(sz, b) == IF Models(sz, b) = {} THEN "unsat" ELSE "sat"

\* `if solver.check() == sat: ... return solution_cells` and `return None`:
\* every answer but sat, unsat and unknown alike, ends in None
AfterCheck(sz, b, ans) ==
    IF ans = "sat"
    THEN {[kind |-> "solution", cells |-> SolutionFrom(m, sz, 0)] : m \in Models(sz, b)}
    ELSE {[kind |-> "none"]}

\* the outcomes of solve_kakuro(puzzle): an IndexError while the constraints are
\* built, None when the assertions are unsatisfiable, else the solution read
\* from the model Z3 returns
solve_kakuro(sz, b) ==
    IF RaisesIndexError(sz, b)
    THEN {[kind |-> "raised", exc |-> "IndexError"]}
    ELSE AfterCheck(sz, b, Decided(sz, b))

----------------------------------------------------------------------------
(* The state machine *)

\* no call of get_sum_run recorded
NoRun == [called |-> FALSE]

\* no outcome of solve_kakuro yet
Pending == [kind |-> "pending"]

\* no input file read
NoFile == [kind |-> "none"]

\* no output file written
NoOutput == [written |-> FALSE]

Init ==
    /\ size = <<1, 1>>
    /\ cells = <<>>
    /\ board = EmptyBoard
    /\ pc = "start"
    /\ result = Pending
    /\ run = NoRun
    /\ answer = "idle"
    /\ file = NoFile
    /\ output = NoOutput

\* puzzle = KakuroPuzzle(size, cells) for a size and a list of the given sets
KakuroPuzzleOn(sizes, lists) ==
    /\ pc = "start"
    /\ \E sz \in sizes, cs \in lists :
          /\ size' = sz
          /\ cells' = cs
          /\ board' = BuildBoard(EmptyBoard, cs)
    /\ pc' = "built"
    /\ UNCHANGED <<result, run, answer, file, output>>

\* puzzle = KakuroPuzzle(size, cells)
KakuroPuzzle == KakuroPuzzleOn(Sizes, CellLists)

\* the query solve_kakuro hands to Z3 is within the bound of the model
\* (an IndexError is raised before any query is made)
InBudget(sz, b) == RaisesIndexError(sz, b) \/ Cardinality(Free(sz, b)) <= MaxFree

\* a solve_kakuro that consumes the puzzle: the board is empty after the call
SolveKakuroConsuming ==
    /\ pc = "built"
    /\ InBudget(size, board)
    /\ result' \in solve_kakuro(size, board)
    /\ answer' = CASE result'.kind = "raised" -> "raised"
                    [] result'.kind = "solution" -> "sat"
                    [] OTHER -> "unsat"
    /\ pc' = "done"
    /\ board' = EmptyBoard
    /\ UNCHANGED <<size, cells, run, file, output>>

\* solution = solve_kakuro(puzzle)
SolveKakuro ==
    /\ pc = "built"
    /\ InBudget(size, board)
    /\ result' \in solve_kakuro(size, board)
    /\ answer' = CASE result'.kind = "raised" -> "raised"
                    [] result'.kind = "solution" -> "sat"
                    [] OTHER -> "unsat"
    /\ pc' = "done"
    /\ UNCHANGED <<size, cells, board, run, file, output>>

\* get_sum_run(puzzle, clue.x, clue.y, direction) for a clue of the board
GetSumRun ==
    /\ pc = "built"
    /\ \E c \in clues(board), direction \in {"right", "down"} :
          run' = [called |-> TRUE, x |-> c.x, y |-> c.y, direction |-> direction,
                  ret |-> get_sum_run(size, board, c.x, c.y, direction)]
    /\ pc' = "ran"
    /\ UNCHANGED <<size, cells, board, result, answer, file, output>>

\* solution = solve_kakuro(puzzle) when the caller has set a Z3 timeout and
\* the search exceeds it: solver.check() answers unknown
SolveKakuroUnknown ==
    /\ pc = "built"
    /\ ~RaisesIndexError(size, board)
    /\ answer' = "unknown"
    /\ result' \in AfterCheck(size, board, "unknown")
    /\ pc' = "done"
    /\ UNCHANGED <<size, cells, board, run, file, output>>

\* one line of a wide board: a clue at (0, 0) with the sum total for the
\* direction, blank cells after it up to position stop, walls from there on
\* and on every other line of the board
WideDescriptor(x, y, direction, total, stop) ==
    LET along == IF direction = "right" THEN x ELSE y
        across == IF direction = "right" THEN y ELSE x
    IN  IF x = 0 /\ y = 0
        THEN [x |-> 0, y |-> 0, wall |-> None,
              right |-> IF direction = "right" THEN PyInt(total) ELSE None,
              down |-> IF direction = "right" THEN None ELSE PyInt(total)]
        ELSE IF across = 0 /\ along < stop
        THEN [x |-> x, y |-> y, wall |-> None, right |-> None, down |-> None]
        ELSE [x |-> x, y |-> y, wall |-> PyBool(TRUE), right |-> None, down |-> None]

\* the descriptors of the walls and the clue of such a board, row by row
WideCells(direction, total, stop) ==
    SelectSeq([i \in 1..(MaxWide * MaxWide) |->
                  WideDescriptor((i - 1) % MaxWide, (i - 1) \div MaxWide,
                                 direction, total, stop)],
              LAMBDA cell : cell.wall # None \/ cell.right # None \/ cell.down # None)

\* square boards wider than ten cells
WideSizes == {<<MaxWide, MaxWide>>}

WideCellLists ==
    {WideCells(direction, total, stop) :
        direction \in {"right", "down"}, total \in {3, 10}, stop \in 1..MaxWide}

\* puzzle = KakuroPuzzle(size, cells) for a wide board
KakuroPuzzleWide == KakuroPuzzleOn(WideSizes, WideCellLists)

NextWide == KakuroPuzzleWide \/ SolveKakuro

\* kakuro_solver on boards with more than ten columns and rows
SpecWide == Init /\ [][NextWide]_vars

Next == KakuroPuzzle \/ SolveKakuro

Spec == Init /\ [][Next]_vars

----------------------------------------------------------------------------
(* common.load_puzzle_data and kakuro_solver.main *)

\* the input files: text that is no JSON, or a JSON document with a size and
\* a list of cells
Files ==
    {[kind |-> "text"]} \cup [kind : {"json"}, size : Sizes, cells : CellLists]

\* a cell satisfies the items schema: x and y are there, and so is at least
\* one of wall, right and down (anyOf)
CellSchemaValid(cell) == cell.wall # None \/ cell.right # None \/ cell.down # None

\* validate(instance=data, schema=PUZZLE_JSON_SCHEMA) raises nothing
SchemaValid(data) == \A k \in DOMAIN data.cells : CellSchemaValid(data.cells[k])

\* load_puzzle_data without the call of validate: any JSON document is returned
load_puzzle_data_unvalidated(f) ==
    IF f.kind = "text"
    THEN [kind |-> "raised", exc |-> "ValueError"]
    ELSE [kind |-> "data", size |-> f.size, cells |-> f.cells]

\* load_puzzle_data(file_path): ValueError for text json.load rejects,
\* ValidationError for data the schema rejects, else the data
load_puzzle_data(f) ==
    IF f.kind = "text"
    THEN [kind |-> "raised", exc |-> "ValueError"]
    ELSE IF ~SchemaValid(f)
         THEN [kind |-> "raised", exc |-> "ValidationError"]
         ELSE [kind |-> "data", size |-> f.size, cells |-> f.cells]

\* puzzle_data = load_puzzle_data(input_file) and the size read from it; an
\* exception leaves main at once
LoadPuzzleData ==
    /\ pc = "start"
    /\ \E f \in Files :
          /\ file' = f
          /\ LET r == load_puzzle_data(f)
             IN  IF r.kind = "raised"
                 THEN result' = r /\ pc' = "failed" /\ UNCHANGED <<size, cells>>
                 ELSE size' = r.size /\ cells' = r.cells /\ pc' = "loaded"
                      /\ UNCHANGED result
    /\ UNCHANGED <<board, run, answer, output>>

\* puzzle = KakuroPuzzle(size, puzzle_data["cells"]) in main
MainKakuroPuzzle ==
    /\ pc = "loaded"
    /\ board' = BuildBoard(EmptyBoard, cells)
    /\ pc' = "built"
    /\ UNCHANGED <<size, cells, result, run, answer, file, output>>

\* the rest of main after solve_kakuro: an exception leaves main, None prints
\* "No solution exists" and returns, a solution is written to the output file
MainOutput ==
    /\ pc = "done"
    /\ CASE result.kind = "raised" -> pc' = "failed" /\ UNCHANGED output
         [] result.kind = "none" -> pc' = "exit" /\ UNCHANGED output
         [] OTHER ->
              /\ output' = [written |-> TRUE, size |-> size, cells |-> cells,
                            solution_cells |-> result.cells]
              /\ pc' = "exit"
    /\ UNCHANGED <<size, cells, board, result, run, answer, file>>

NextMain == LoadPuzzleData \/ MainKakuroPuzzle \/ SolveKakuro \/ MainOutput

\* main of kakuro_solver
SpecMain == Init /\ [][NextMain]_vars

----------------------------------------------------------------------------
(* kakuro_validator.validate_puzzle_format *)

\* a key the dictionary does not have, and values of the other JSON types
Absent == [t |-> "absent"]
PyStr == [t |-> "str"]
PyList(items) == [t |-> "list", items |-> items]

\* isinstance(v, int): bool is a subclass of int
IsInstanceInt(v) == v.t \in {"int", "bool"}

\* isinstance(v, bool)
IsInstanceBool(v) == v.t = "bool"

\* the number Python compares a value with: True is 1 and False is 0
AsNumber(v) == IF v.t = "bool" THEN (IF v.b THEN 1 ELSE 0) ELSE v.n

\* the puzzles handed to validate_puzzle_format
PuzzleSizes ==
    {PyStr, PyList(<<PyInt(2)>>), PyList(<<PyInt(2), PyInt(2)>>),
     PyList(<<PyInt(2), PyStr>>), PyList(<<PyBool(TRUE), PyInt(2)>>)}

PuzzleCellDicts ==
    [t : {"dict"},
     x : {Absent, PyInt(0), PyStr},
     y : {PyInt(0), PyBool(TRUE)},
     wall : {Absent, PyBool(TRUE), PyInt(1)},
     right : {Absent, PyInt(3), PyStr},
     down : {Absent, PyStr},
     value : {Absent, PyInt(5), PyInt(10), PyBool(TRUE), PyStr}]

PuzzleCells == {PyStr} \cup PuzzleCellDicts

PuzzleCellLists ==
    {PyStr} \cup {PyList(l) : l \in UNION {[1..n -> PuzzleCells] : n \in 0..MaxCells}}

Puzzles == [kind : {"puzzle"}, size : PuzzleSizes, cells : PuzzleCellLists]

\* return False, message
Invalid(message, i) ==
    [kind |-> "returned", ok |-> FALSE, message |-> [text |-> message, i |-> i]]

\* return True, None
Valid == [kind |-> "returned", ok |-> TRUE, message |-> None]

\* the body of the loop over the cells for cell number i: the pair it returns,
\* or Valid when it falls through to the next cell
CheckCell(cell, i) ==
    IF cell.t # "dict" THEN Invalid("cell {i} must be a dictionary", i)
    ELSE IF cell.x = Absent \/ cell.y = Absent
    THEN Invalid("cell {i} missing x or y coordinates", i)
    ELSE IF ~IsInstanceInt(cell.x) \/ ~IsInstanceInt(cell.y)
    THEN Invalid("cell {i} coordinates must be integers", i)
    ELSE IF cell.wall # Absent /\ ~IsInstanceBool(cell.wall)
    THEN Invalid("cell {i} wall must be boolean", i)
    ELSE IF cell.right # Absent /\ ~IsInstanceInt(cell.right)
    THEN Invalid("cell {i} right sum must be integer", i)
    ELSE IF cell.down # Absent /\ ~IsInstanceInt(cell.down)
    THEN Invalid("cell {i} down sum must be integer", i)
    ELSE IF cell.value # Absent /\ ~IsInstanceInt(cell.value)
    THEN Invalid("cell {i} value must be integer", i)
    ELSE IF cell.value # Absent
            /\ ~(MinDigit <= AsNumber(cell.value) /\ AsNumber(cell.value) <= MaxDigit)
    THEN Invalid("cell {i} value must be between 1 and 9", i)
    ELSE Valid

\* for i, cell in enumerate(puzzle["cells"]), from list position k on
RECURSIVE CheckCells(_, _)
CheckCells(items, k) ==
    IF k > Len(items) THEN Valid
    ELSE IF CheckCell(items[k], k - 1).ok
         THEN CheckCells(items, k + 1)
         ELSE CheckCell(items[k], k - 1)

validate_puzzle_format(puzzle) ==
    IF puzzle.size.t # "list" THEN Invalid("size must be a list", 0 - 1)
    ELSE IF Len(puzzle.size.items) # 2
    THEN Invalid("size must contain exactly 2 elements [rows, cols]", 0 - 1)
    ELSE IF \E k \in DOMAIN puzzle.size.items : ~IsInstanceInt(puzzle.size.items[k])
    THEN Invalid("size elements must be integers", 0 - 1)
    ELSE IF puzzle.cells.t # "list" THEN Invalid("cells must be a list", 0 - 1)
    ELSE CheckCells(puzzle.cells.items, 1)

\* a puzzle read from a file, before validate_puzzle_format is called on it
InitValidate ==
    /\ file \in Puzzles
    /\ size = <<1, 1>>
    /\ cells = <<>>
    /\ board = EmptyBoard
    /\ pc = "start"
    /\ result = Pending
    /\ run = NoRun
    /\ answer = "idle"
    /\ output = NoOutput

\* is_valid, error = validate_puzzle_format(puzzle)
ValidatePuzzleFormat ==
    /\ pc = "start"
    /\ file.kind = "puzzle"
    /\ result' = validate_puzzle_format(file)
    /\ pc' = "done"
    /\ UNCHANGED <<size, cells, board, run, answer, file, output>>

NextValidate == ValidatePuzzleFormat

SpecValidate == InitValidate /\ [][NextValidate]_vars

----------------------------------------------------------------------------
(* kakuru_solver: the legacy solver. Its get_sum_run and the loop of its
   solve_kakuro over puzzle.clues are the text of kakuro_solver. *)

\* cell.get("value"): absent, the digit 5, or 10
ValueValues == {None, PyInt(5), PyInt(10)}

\* the cell descriptors of the legacy format
kakuru_Descriptors ==
    [x : 0..(MaxCols - 1), y : 0..(MaxRows - 1),
     wall : {None, PyBool(TRUE)}, row_sum : {None, PyInt(3)},
     col_sum : {None, PyInt(3)}, value : ValueValues]

kakuru_CellLists == UNION {[1..n -> kakuru_Descriptors] : n \in 0..MaxCells}

\* is_wall = cell.get("wall") or row_sum or col_sum
kakuru_IsWall(cell) == PyOr(PyOr(cell.wall, cell.row_sum), cell.col_sum)

\* one of the two asserts of the constructor fails for the descriptor
kakuru_AssertFails(cell) ==
    /\ Truthy(cell.value)
    /\ Truthy(kakuru_IsWall(cell)) \/ cell.value.n \notin 1..9

\* one iteration of the constructor's loop, for a descriptor that passes the asserts
kakuru_AddCell(b, cell) ==
    LET key == <<cell.x, cell.y>>
        clue == [x |-> cell.x, y |-> cell.y, row_sum |-> cell.row_sum,
                 col_sum |-> cell.col_sum, is_wall |-> kakuru_IsWall(cell),
                 value |-> cell.value]
    IN  IF Truthy(kakuru_IsWall(cell)) \/ Truthy(cell.value)
        THEN (key :> clue) @@ b
        ELSE b

RECURSIVE kakuru_BuildBoard(_, _, _)
\* the board after the constructor's loop has run over cs from position k on
kakuru_BuildBoard(b, cs, k) ==
    IF k > Len(cs) THEN b ELSE kakuru_BuildBoard(kakuru_AddCell(b, cs[k]), cs, k + 1)

\* puzzle = KakuroPuzzle(size, cells) of kakuru_solver: a failing assert
\* leaves no puzzle
kakuru_KakuroPuzzle ==
    /\ pc = "start"
    /\ \E sz \in Sizes, cs \in kakuru_CellLists :
          /\ size' = sz
          /\ cells' = cs
          /\ IF \E k \in DOMAIN cs : kakuru_AssertFails(cs[k])
             THEN /\ result' = [kind |-> "raised", exc |-> "AssertionError"]
                  /\ pc' = "failed"
                  /\ UNCHANGED board
             ELSE /\ board' = kakuru_BuildBoard(EmptyBoard, cs, 1)
                  /\ pc' = "built"
                  /\ UNCHANGED result
    /\ UNCHANGED <<run, answer, file, output>>

\* `puzzle.is_wall` as the condition of an if: the bound method itself, not a
\* call of it, and a method object is truthy
puzzle_is_wall == TRUE

\* the list of rows built from the model
kakuru_Solution(m, sz) ==
    [i \in 0..(sz[1] - 1) |-> [j \in 0..(sz[2] - 1) |-> m[<<i, j>>]]]

\* the outcomes of kakuru_solver.solve_kakuro(puzzle): every cell get_clue
\* finds is asserted == 0, as puzzle.is_wall is truthy; the branch that reads
\* puzzle.value is never entered (KakuroPuzzle has no such attribute)
kakuru_solve_kakuro(sz, b) ==
    IF Pinned(sz, b) # {} /\ ~puzzle_is_wall
    THEN {[kind |-> "raised", exc |-> "AttributeError"]}
    ELSE IF RaisesIndexError(sz, b)
    THEN {[kind |-> "raised", exc |-> "IndexError"]}
    ELSE IF Models(sz, b) = {}
    THEN {[kind |-> "none"]}
    ELSE {[kind |-> "grid", rows |-> kakuru_Solution(m, sz)] : m \in Models(sz, b)}

\* solution = solve_kakuro(puzzle) of kakuru_solver
kakuru_SolveKakuro ==
    /\ pc = "built"
    /\ InBudget(size, board)
    /\ result' \in kakuru_solve_kakuro(size, board)
    /\ answer' = CASE result'.kind = "raised" -> "raised"
                    [] result'.kind = "grid" -> "sat"
                    [] OTHER -> "unsat"
    /\ pc' = "done"
    /\ UNCHANGED <<size, cells, board, run, file, output>>

NextLegacy == kakuru_KakuroPuzzle \/ kakuru_SolveKakuro

\* kakuru_solver: a puzzle is built and solved
SpecLegacy == Init /\ [][NextLegacy]_vars

----------------------------------------------------------------------------
(* kakuro_ocr.detect_grid_lines.merge_lines *)

\* the lists of line positions int(abs(rho)) collected from the Hough lines
LineLists == UNION {[1..n -> 0..MaxLine] : n \in 0..MaxLines}

RECURSIVE Insert(_, _)
\* the sorted sequence s with the number v put in its place
Insert(s, v) ==
    IF s = <<>> THEN <<v>>
    ELSE IF v <= Head(s) THEN <<v>> \o s
    ELSE <<Head(s)>> \o Insert(Tail(s), v)

RECURSIVE sorted(_)
\* sorted(lines)
sorted(lines) ==
    IF lines = <<>> THEN <<>> ELSE Insert(sorted(Tail(lines)), Head(lines))

RECURSIVE MergeLoopInclusive(_, _, _, _)
\* the loop with the test `line - merged[-1] >= tolerance`
MergeLoopInclusive(lines_sorted, k, merged, tolerance) ==
    IF k > Len(lines_sorted) THEN merged
    ELSE MergeLoopInclusive(lines_sorted, k + 1,
             IF lines_sorted[k] - merged[Len(merged)] >= tolerance
             THEN Append(merged, lines_sorted[k]) ELSE merged,
             tolerance)

\* merge_lines with that loop
merge_lines_inclusive(lines, tolerance) ==
    IF lines = <<>> THEN <<>>
    ELSE MergeLoopInclusive(sorted(lines), 2, <<sorted(lines)[1]>>, tolerance)

RECURSIVE MergeLoop(_, _, _, _)
\* `for line in lines_sorted[1:]`, from list position k on
MergeLoop(lines_sorted, k, merged, tolerance) ==
    IF k > Len(lines_sorted) THEN merged
    ELSE MergeLoop(lines_sorted, k + 1,
             IF lines_sorted[k] - merged[Len(merged)] > tolerance
             THEN Append(merged, lines_sorted[k]) ELSE merged,
             tolerance)

\* merge_lines(lines, tolerance)
merge_lines(lines, tolerance) ==
    IF lines = <<>> THEN <<>>
    ELSE MergeLoop(sorted(lines), 2, <<sorted(lines)[1]>>, tolerance)

\* the lines of one direction have been collected
InitMerge ==
    /\ file \in [kind : {"lines"}, lines : LineLists]
    /\ size = <<1, 1>>
    /\ cells = <<>>
    /\ board = EmptyBoard
    /\ pc = "start"
    /\ result = Pending
    /\ run = NoRun
    /\ answer = "idle"
    /\ output = NoOutput

\* merge_lines(vertical_lines) or merge_lines(horizontal_lines), with the
\* default tolerance
MergeLines ==
    /\ pc = "start"
    /\ file.kind = "lines"
    /\ result' = [kind |-> "returned", merged |-> merge_lines(file.lines, Tolerance)]
    /\ pc' = "done"
    /\ UNCHANGED <<size, cells, board, run, answer, file, output>>

NextMerge == MergeLines

SpecMerge == InitMerge /\ [][NextMerge]_vars

NextCalls == KakuroPuzzle \/ SolveKakuro \/ GetSumRun

\* a puzzle is built, then handed to solve_kakuro or to get_sum_run
SpecCalls == Init /\ [][NextCalls]_vars

NextBudget == KakuroPuzzle \/ SolveKakuro \/ SolveKakuroUnknown

\* the solver under a budget the caller imposes on Z3
SpecBudget == Init /\ [][NextBudget]_vars

NextRun == KakuroPuzzle \/ GetSumRun

SpecRun == Init /\ [][NextRun]_vars

----------------------------------------------------------------------------
(* The board as the specification reads it: <<x, y>> is <<column, row>>, a  *)
(* coordinate of the grid that board does not hold is blank, and a run is   *)
(* the longest stretch of blank coordinates after its clue.                 *)

\* the coordinates of a rows x cols grid
Coordinates(sz) == (0..(sz[2] - 1)) \X (0..(sz[1] - 1))

\* the blank coordinates of the board
Blank(sz, b) == Coordinates(sz) \ DOMAIN b

\* the k-th coordinate after <<x, y>> in a direction
Step(x, y, direction, k) == IF direction = "right" THEN <<x + k, y>> ELSE <<x, y + k>>

\* the number of blank coordinates that follow <<x, y>> without interruption
RunLength(sz, b, x, y, direction) ==
    CHOOSE n \in 0..(sz[1] + sz[2]) :
        /\ \A k \in 1..n : Step(x, y, direction, k) \in Blank(sz, b)
        /\ Step(x, y, direction, n + 1) \notin Blank(sz, b)

\* the run of the clue at <<x, y>> in a direction
Run(sz, b, x, y, direction) ==
    [k \in 1..RunLength(sz, b, x, y, direction) |-> Step(x, y, direction, k)]

\* the runs of the board that have cells, each with its target sum
Runs(sz, b) ==
    {[cells |-> Run(sz, b, c.x, c.y, "right"), total |-> c.row_sum.n] :
        c \in {d \in clues(b) : d.row_sum # None /\ Run(sz, b, d.x, d.y, "right") # <<>>}}
    \cup
    {[cells |-> Run(sz, b, c.x, c.y, "down"), total |-> c.col_sum.n] :
        c \in {d \in clues(b) : d.col_sum # None /\ Run(sz, b, d.x, d.y, "down") # <<>>}}

\* the entries of a solution at a coordinate
Entries(sol, c) == {k \in DOMAIN sol : sol[k].x = c[1] /\ sol[k].y = c[2]}

\* the solution holds exactly one digit at the coordinate
HoldsOneDigit(sol, c) ==
    /\ Cardinality(Entries(sol, c)) = 1
    /\ \A k \in Entries(sol, c) : sol[k].value \in MinDigit..MaxDigit

\* the digit of a solution at a coordinate that holds one
ValueAt(sol, c) == sol[CHOOSE k \in Entries(sol, c) : TRUE].value

\* the digits of the run are pairwise distinct and sum to the target
RunSatisfied(sol, r) ==
    /\ \A c \in Range(r.cells) : HoldsOneDigit(sol, c)
    /\ LET a == [c \in Range(r.cells) |-> ValueAt(sol, c)]
       IN  DistinctOver(a, r.cells) /\ SumOver(a, r.cells) = r.total

\* the Solution Validator
Validates(sz, b, sol) ==
    /\ \A c \in Blank(sz, b) : HoldsOneDigit(sol, c)
    /\ \A r \in Runs(sz, b) : RunSatisfied(sol, r)

\* the exhaustive enumeration finds an assignment: the blank cells outside every
\* run take any digit, so the digit assignments to the cells of the runs decide
Solvable(sz, b) ==
    \E a \in [UNION {Range(r.cells) : r \in Runs(sz, b)} -> MinDigit..MaxDigit] :
        \A r \in Runs(sz, b) : DistinctOver(a, r.cells) /\ SumOver(a, r.cells) = r.total

----------------------------------------------------------------------------
(* The cell lists the Board Model accepts *)

\* every descriptor lies in the grid
InGrid(sz, cs) == \A k \in DOMAIN cs : <<cs[k].x, cs[k].y>> \in Coordinates(sz)

\* every descriptor marks a wall or a clue
Marked(cs) ==
    \A k \in DOMAIN cs :
        cs[k].wall = PyBool(TRUE) \/ cs[k].right # None \/ cs[k].down # None

\* every sum that is present is a positive integer
ValidSums(cs) ==
    \A k \in DOMAIN cs :
        /\ cs[k].right # None => cs[k].right.n > 0
        /\ cs[k].down # None => cs[k].down.n > 0

\* no two descriptors have the same (x, y)
Unique(cs) ==
    \A p, q \in DOMAIN cs : (cs[p].x = cs[q].x /\ cs[p].y = cs[q].y) => p = q

\* a well-formed board: in-bounds walls and clues with positive sums, one
\* descriptor per coordinate
WellFormed(sz, cs) == InGrid(sz, cs) /\ Marked(cs) /\ ValidSums(cs) /\ Unique(cs)

\* the board holds a clue whose sum has no cell to cover
HasEmptyRun(sz, b) ==
    \E c \in clues(b) :
        \/ c.row_sum # None /\ Run(sz, b, c.x, c.y, "right") = <<>>
        \/ c.col_sum # None /\ Run(sz, b, c.x, c.y, "down") = <<>>

\* solve_kakuro has ended on a well-formed board whose clues all have cells
Ended == pc = "done" /\ WellFormed(size, cells) /\ ~HasEmptyRun(size, board)

\* solve_kakuro has returned a solution for such a board
Solved == Ended /\ result.kind = "solution"

----------------------------------------------------------------------------
(* C1..C6: the solver's contract *)

\* C1: whenever solve_kakuro returns a solution, every blank cell of the board
\* holds exactly one digit in 1..9 and the digits of every run are pairwise
\* distinct and sum to the clue value, for boards of any size.
C1_Soundness == Solved => Validates(size, board, result.cells)

\* C2: solve_kakuro returns None if and only if the exhaustive enumeration finds
\* no satisfying assignment, and returns a solution if one exists.
C2_Completeness ==
    Ended =>
        /\ result.kind = "none" <=> ~Solvable(size, board)
        /\ Solvable(size, board) => result.kind = "solution"

\* C3: the coordinates of the returned solution are exactly the blank
\* coordinates <<x, y>> with 0 <= x < cols and 0 <= y < rows.
C3_SolutionCoversBlanks ==
    Solved => {<<c.x, c.y>> : c \in Range(result.cells)} = Blank(size, board)

\* C4: on a well-formed board solve_kakuro never raises: it ends by returning a
\* solution or None.
C4_NeverRaises ==
    (pc = "done" /\ WellFormed(size, cells)) => result.kind \in {"solution", "none"}

\* the board of the scenario: 2 rows, 3 columns, one clue at (0, 0) with right = 3
ScenarioCells == <<[x |-> 0, y |-> 0, wall |-> None, right |-> PyInt(3), down |-> None]>>

\* C5: on the 2 x 3 board whose only clue is right = 3 at (0, 0), the solver
\* returns the value 1 at (1, 0) and the value 2 at (2, 0).
C5_Scenario ==
    (pc = "done" /\ size = <<2, 3>> /\ cells = ScenarioCells) =>
        /\ result.kind = "solution"
        /\ HoldsOneDigit(result.cells, <<1, 0>>) /\ ValueAt(result.cells, <<1, 0>>) = 1
        /\ HoldsOneDigit(result.cells, <<2, 0>>) /\ ValueAt(result.cells, <<2, 0>>) = 2

----------------------------------------------------------------------------
(* C7: the run extractor *)

\* C7: for every clue cell and direction, get_sum_run returns, in walking order,
\* exactly the longest stretch of blank coordinates that starts right after the
\* clue and ends before the first wall, the first clue or the grid boundary,
\* empty when the adjacent cell is not blank, together with its length. The
\* clue cells are those of a list of walls and clues with positive sums and one
\* descriptor per coordinate.
C7_RunIsMaximalBlankStretch ==
    (run.called /\ Marked(cells) /\ ValidSums(cells) /\ Unique(cells)) =>
        run.ret = <<RunLength(size, board, run.x, run.y, run.direction),
                    Run(size, board, run.x, run.y, run.direction)>>

----------------------------------------------------------------------------
(* C8..C10: malformed input *)

\* C8: a clue whose sum has no cells to cover is surfaced as an EmptyRun error;
\* the solver never returns a solution for a board that holds such a clue.
C8_EmptyRunSurfaced ==
    (pc = "done" /\ WellFormed(size, cells) /\ HasEmptyRun(size, board)) =>
        result = [kind |-> "raised", exc |-> "EmptyRun"]

\* the constructor has returned a board
Built == pc \in {"built", "ran", "done"}

\* C9: building a board from a list in which two descriptors have the same
\* (x, y) fails with DuplicateCell: the constructor returns no board for a list
\* of walls and clues that names a coordinate twice.
C9_DuplicateCellRejected ==
    (Built /\ InGrid(size, cells) /\ Marked(cells) /\ ValidSums(cells)) => Unique(cells)

\* C10: building a board from a descriptor whose right or down sum is zero or
\* negative fails with InvalidSum: the constructor returns no board for a list
\* that holds such a descriptor.
C10_InvalidSumRejected ==
    (Built /\ InGrid(size, cells) /\ Unique(cells)) => ValidSums(cells)

----------------------------------------------------------------------------
(* C11..C12: the board the constructor builds *)

\* the coordinates a list of descriptors marks as a wall or a clue: wall is
\* true, or a right and/or down sum is carried
MarkedCoordinates(cs) ==
    {<<cs[k].x, cs[k].y>> : k \in {j \in DOMAIN cs :
        cs[j].wall = PyBool(TRUE) \/ cs[j].right # None \/ cs[j].down # None}}

\* C11: after construction a coordinate is non-blank (present in the board and
\* ending runs) if and only if its descriptor has wall = true or carries a
\* right and/or down sum; any other descriptor leaves its coordinate blank.
C11_NonBlankIffMarked ==
    (Built /\ Unique(cells)) =>
        /\ DOMAIN board = MarkedCoordinates(cells)
        /\ \A c \in DOMAIN board : is_wall(board, c[1], c[2])

\* C12: every coordinate stored in a constructed board satisfies 0 <= x < cols
\* and 0 <= y < rows: a descriptor outside the grid is rejected at construction.
C12_BoardInsideGrid ==
    (Built /\ Marked(cells) /\ ValidSums(cells) /\ Unique(cells)) =>
        DOMAIN board \subseteq Coordinates(size)

----------------------------------------------------------------------------
(* C13: structurally unsatisfiable runs *)

\* the smallest sum of n distinct digits: n * (n + 1) / 2
MinSum(n) == (n * (n + 1)) \div 2

\* the sum of the n largest digits of 1..9
MaxSum(n) == (n * (2 * MaxDigit + 1 - n)) \div 2

\* some run of the board has a target outside [MinSum, MaxSum] for its length
HasInfeasibleRun(sz, b) ==
    \E r \in Runs(sz, b) : r.total < MinSum(Len(r.cells)) \/ r.total > MaxSum(Len(r.cells))

\* C13: if a run of the board has a target sum outside the range of its length,
\* the solver reports no solution and returns no solution for that board.
C13_InfeasibleRunReported ==
    (pc = "done" /\ WellFormed(size, cells) /\ HasInfeasibleRun(size, board)) =>
        result.kind = "none"

----------------------------------------------------------------------------
(* C14: the budget *)

\* C14: when a budget the caller imposes is exceeded, the solver ends with a
\* TimedOut outcome that differs from the no-solution outcome: a search that
\* did not finish is never reported as None.
C14_TimedOutIsDistinct ==
    (pc = "done" /\ answer = "unknown") => result.kind \notin {"none", "solution"}

----------------------------------------------------------------------------
(* C15: main fails fast *)

\* load_puzzle_data rejects the file main has read: no JSON, or a schema violation
Rejected(f) == f.kind = "text" \/ \E k \in DOMAIN f.cells : ~CellSchemaValid(f.cells[k])

\* C15: when load_puzzle_data rejects the input, the error propagates,
\* solve_kakuro is never invoked and no output file is written; solve_kakuro
\* runs only after validation and the construction of the board have completed.
C15_MainFailsFast ==
    /\ (file # NoFile /\ Rejected(file)) =>
          /\ pc = "failed" /\ result.kind = "raised"
          /\ result.exc \in {"ValueError", "ValidationError"}
          /\ answer = "idle" /\ output = NoOutput
    /\ answer # "idle" =>
          /\ file # NoFile /\ ~Rejected(file)
          /\ size = file.size /\ board = BuildBoard(EmptyBoard, file.cells)
    /\ output # NoOutput => answer = "sat"

\* main has stopped on a file the schema rejects
C15_SchemaRejected ==
    pc = "failed" /\ file.kind = "json" /\ result.exc = "ValidationError"

----------------------------------------------------------------------------
(* C16: the format validator *)

\* an integer of the puzzle format: a JSON number, not true or false
IsInteger(v) == v.t = "int"

\* the cell carries a value that is not an integer in 1..9
BadValue(cell) ==
    /\ cell.t = "dict" /\ cell.value # Absent
    /\ ~(IsInteger(cell.value) /\ cell.value.n \in MinDigit..MaxDigit)

\* a dictionary with integer x and y whose present fields have the required
\* type and range
CellFormatValid(cell) ==
    /\ cell.t = "dict"
    /\ IsInteger(cell.x) /\ IsInteger(cell.y)
    /\ cell.wall = Absent \/ cell.wall.t = "bool"
    /\ cell.right = Absent \/ IsInteger(cell.right)
    /\ cell.down = Absent \/ IsInteger(cell.down)
    /\ cell.value = Absent \/ (IsInteger(cell.value) /\ cell.value.n \in MinDigit..MaxDigit)

SizeFormatValid(puzzle) ==
    /\ puzzle.size.t = "list" /\ Len(puzzle.size.items) = 2
    /\ \A k \in 1..2 : IsInteger(puzzle.size.items[k])

PuzzleFormatValid(puzzle) ==
    /\ SizeFormatValid(puzzle)
    /\ puzzle.cells.t = "list"
    /\ \A k \in DOMAIN puzzle.cells.items : CellFormatValid(puzzle.cells.items[k])

\* the list positions of the cells that break the format
Offending(puzzle) ==
    {k \in DOMAIN puzzle.cells.items : ~CellFormatValid(puzzle.cells.items[k])}

\* C16: validate_puzzle_format returns (False, message) whenever some cell
\* carries a value that is not an integer in 1..9, returns (True, None) exactly
\* for the puzzles of valid format, and its message names the first offending
\* cell in list order.
C16_ValidatorAccepts ==
    (pc = "done" /\ file.kind = "puzzle") =>
        /\ (file.cells.t = "list"
            /\ \E k \in DOMAIN file.cells.items : BadValue(file.cells.items[k]))
           => ~result.ok
        /\ result = Valid <=> PuzzleFormatValid(file)
        /\ (SizeFormatValid(file) /\ file.cells.t = "list" /\ Offending(file) # {})
           => /\ ~result.ok
              /\ \A k \in Offending(file) : result.message.i + 1 <= k

----------------------------------------------------------------------------
(* C17: runs of one direction do not overlap *)

\* no two clues' posted runs of the direction share a cell
Disjoint(sz, b, direction) ==
    \A r1, r2 \in PostedRuns(sz, b, direction) :
        r1.clue # r2.clue => Range(r1.cells) \cap Range(r2.cells) = {}

\* C17: among the runs solve_kakuro derives from the clues of a board, no two
\* clues' rightward runs share a cell and no two clues' downward runs share a
\* cell, so a blank cell is in at most one row run and one column run.
C17_RunsDoNotOverlap ==
    pc = "done" => (Disjoint(size, board, "right") /\ Disjoint(size, board, "down"))

\* solve_kakuro has posted the rightward runs of two clues
C17_TwoRowRuns ==
    /\ pc = "done"
    /\ WellFormed(size, cells)
    /\ \E r1, r2 \in PostedRuns(size, board, "right") : r1.clue # r2.clue

----------------------------------------------------------------------------
(* C18: the length of a run *)

\* the runs solve_kakuro has posted a sum on, of both directions
AllPostedRuns(sz, b) == PostedRuns(sz, b, "right") \cup PostedRuns(sz, b, "down")

----------------------------------------------------------------------------
(* C19: the puzzle is read, never written *)

\* C19: solve_kakuro and get_sum_run leave the puzzle unchanged: the board
\* mapping and the size are the same after the call as before it, whatever
\* the call returns.
C19_PuzzleUnchanged ==
    [][(pc = "built" /\ pc' \in {"done", "ran"}) => (board' = board /\ size' = size)]_vars

\* solve_kakuro has returned a solution for a board that holds a clue
C19_SolvedWithClues ==
    /\ pc = "done" /\ result.kind = "solution"
    /\ \E c \in clues(board) : c.row_sum # None \/ c.col_sum # None

----------------------------------------------------------------------------
(* C20: clue cells and run ends coincide *)

\* the coordinates a descriptor can name, and one line beyond them
Nearby == (0..MaxCols) \X (0..MaxRows)

\* C20: for every coordinate get_clue returns a cell if and only if is_wall is
\* truthy for it, so the grid variables solve_kakuro pins to 0 are never
\* members of a run, and a returned solution lists none of them.
C20_ClueIffWall ==
    Built =>
        /\ \A c \in Nearby \cup DOMAIN board :
              get_clue(board, c[1], c[2]) <=> is_wall(board, c[1], c[2])
        /\ Pinned(size, board) \cap Constrained(size, board) = {}
        /\ (pc = "done" /\ result.kind = "solution") =>
              \A k \in DOMAIN result.cells :
                  ~get_clue(board, result.cells[k].x, result.cells[k].y)

\* solve_kakuro has solved a board with a clue that has sums and no wall flag,
\* and the solution has a digit for a cell of its run
C20_ImplicitWallSolved ==
    /\ pc = "done" /\ result.kind = "solution" /\ result.cells # <<>>
    /\ \E c \in clues(board) : c.is_wall.t = "int"
    /\ Constrained(size, board) # {}

----------------------------------------------------------------------------
(* C21: the order of the solution list *)

\* cell p comes before cell q in lexicographic (x, y) order
Before(p, q) == p.x < q.x \/ (p.x = q.x /\ p.y < q.y)

\* C21: the list solve_kakuro returns is strictly increasing in lexicographic
\* (x, y) order, so no coordinate appears twice in it, and every value in it
\* lies in 1..9.
C21_SolutionIsOrdered ==
    (pc = "done" /\ result.kind = "solution") =>
        /\ \A p, q \in DOMAIN result.cells :
              p < q => Before(result.cells[p], result.cells[q])
        /\ \A p, q \in DOMAIN result.cells :
              (result.cells[p].x = result.cells[q].x
               /\ result.cells[p].y = result.cells[q].y) => p = q
        /\ \A p \in DOMAIN result.cells : result.cells[p].value \in MinDigit..MaxDigit

\* solve_kakuro has returned digits for cells of two different x
C21_TwoRowsSolved ==
    /\ pc = "done" /\ result.kind = "solution"
    /\ \E p, q \in DOMAIN result.cells : result.cells[p].x # result.cells[q].x

----------------------------------------------------------------------------
(* C22: pre-filled values in the legacy solver *)

\* C22: in every solution kakuru_solver.solve_kakuro returns, a cell given
\* with a pre-filled value v in 1..9 holds exactly v, and a wall or clue cell
\* holds 0.
C22_PrefilledValueKept ==
    (pc = "done" /\ result.kind = "grid") =>
        \A c \in clues(board) :
            <<c.x, c.y>> \in Grid(size) =>
                result.rows[c.x][c.y] = (IF Truthy(c.value) THEN c.value.n ELSE 0)

----------------------------------------------------------------------------
(* C23: merged grid lines *)

\* C23: merge_lines returns a strictly increasing list in which any two
\* consecutive entries differ by more than the tolerance, every returned entry
\* is one of the input lines, and every input line lies at most the tolerance
\* above some returned entry; for the empty input it returns the empty list.
C23_MergedLines ==
    (pc = "done" /\ file.kind = "lines") =>
        LET merged == result.merged
            lines == file.lines
        IN  /\ \A k \in 1..(Len(merged) - 1) :
                  merged[k] < merged[k + 1] /\ merged[k + 1] - merged[k] > Tolerance
            /\ \A k \in DOMAIN merged : \E i \in DOMAIN lines : lines[i] = merged[k]
            /\ \A i \in DOMAIN lines : \E k \in DOMAIN merged :
                  merged[k] <= lines[i] /\ lines[i] - merged[k] <= Tolerance
            /\ lines = <<>> => merged = <<>>

\* merge_lines has dropped a line and kept two
C23_LineDropped ==
    /\ pc = "done" /\ file.kind = "lines"
    /\ Len(result.merged) = 2 /\ Len(file.lines) = 3

====
